---- MODULE Spec2Model ----
(***************************************************************************)
(* The in-memory stock store of the /api/stocks/bloxfruits route: the      *)
(* stocksData map, the expiry sweep and its interval timer, and the five   *)
(* HTTP handlers (GET, POST, PUT, DELETE, PATCH) behind the authorize      *)
(* filter.                                                                 *)
(*                                                                         *)
(* Strings are sequences of one-character strings, so that toLowerCase,    *)
(* replace(/\s+/g, "-"), slice(-8), includes and the decimal rendering of  *)
(* Date.now() are computed as the code computes them.  Times are           *)
(* milliseconds, as returned by Date.now().                                *)
(***************************************************************************)
EXTENDS Integers, Sequences, FiniteSets, TLC

VARIABLES
    stocksData,  \* the Map<string, StockData>, as the set of its values
    now,         \* the value Date.now() returns
    nextFire,    \* the time the setInterval timer is next due
    inflight,    \* handlers suspended at `await request.json()`
    resp,        \* what the step just taken answered and logged
    origin       \* history: which POST last set each stored id

vars == <<stocksData, now, nextFire, inflight, resp, origin>>

----------------------------------------------------------------------------
(* Program constants *)

CLEANUP_INTERVAL == 5 * 60 * 1000

\* mutant: entries live twice as long
LongExpiry == 20 * 60 * 1000

DATA_EXPIRY == 10 * 60 * 1000
validKey == <<"G","A","M","E","R","S","B","E","R","G">>
SuffixLen == 8

(* Bounds of the model *)

MaxEntries == 2      \* entries the store may hold
MaxInflight == 2     \* handlers suspended at their await at one time
MaxIntervals == 3    \* timer periods the clock may run through
MaxJitter == 1       \* milliseconds past a timer period at which things happen

----------------------------------------------------------------------------
(* Strings *)

Lower(c) ==
    CASE c = "A" -> "a"
      [] c = "B" -> "b"
      [] c = "C" -> "c"
      [] c = "Z" -> "z"
      [] OTHER -> c

IsWs(c) == c \in {" ", "\t"}

RECURSIVE toLowerCase(_)
toLowerCase(s) ==
    IF s = <<>> THEN <<>> ELSE <<Lower(Head(s))>> \o toLowerCase(Tail(s))

RECURSIVE SkipWs(_)
SkipWs(s) ==
    IF s # <<>> /\ IsWs(Head(s)) THEN SkipWs(Tail(s)) ELSE s

\* s.replace(/\s+/g, "-"): every maximal run of whitespace becomes one "-"
RECURSIVE ReplaceWs(_)
ReplaceWs(s) ==
    IF s = <<>> THEN <<>>
    ELSE IF IsWs(Head(s)) THEN <<"-">> \o ReplaceWs(SkipWs(Tail(s)))
    ELSE <<Head(s)>> \o ReplaceWs(Tail(s))

\* s.slice(-8): the last 8 characters, or all of s when it is shorter
SliceLast(s) ==
    IF Len(s) <= SuffixLen THEN s ELSE SubSeq(s, Len(s) - SuffixLen + 1, Len(s))

\* s.includes(sub)
Includes(s, sub) ==
    \E i \in 1..(Len(s) - Len(sub) + 1) : SubSeq(s, i, i + Len(sub) - 1) = sub

Digit(d) ==
    CASE d = 0 -> "0" [] d = 1 -> "1" [] d = 2 -> "2" [] d = 3 -> "3"
      [] d = 4 -> "4" [] d = 5 -> "5" [] d = 6 -> "6" [] d = 7 -> "7"
      [] d = 8 -> "8" [] d = 9 -> "9"

\* `${n}` for a non-negative integer
RECURSIVE NumToString(_)
NumToString(n) ==
    IF n < 10 THEN <<Digit(n)>> ELSE NumToString(n \div 10) \o <<Digit(n % 10)>>

NormalPrefix == <<"n","o","r","m","a","l","-">>
MiragePrefix == <<"m","i","r","a","g","e","-">>
NormalTag == <<" ","(","N","o","r","m","a","l",")">>
MirageTag == <<" ","(","M","i","r","a","g","e",")">>

----------------------------------------------------------------------------
(* JSON values of a request body: a tag and the payload of that tag *)

Str(s) == [t |-> "str", s |-> s, n |-> 0]
Num(n) == [t |-> "num", s |-> <<>>, n |-> n]
Null == [t |-> "null", s |-> <<>>, n |-> 0]
Absent == [t |-> "absent", s |-> <<>>, n |-> 0]

\* JavaScript truthiness
Truthy(v) ==
    \/ v.t = "str" /\ v.s # <<>>
    \/ v.t = "num" /\ v.n # 0

\* mutant: a string passes for a number
IsNumberLoose(v) == v.t \in {"num", "str"}

\* typeof v === "number"
IsNumber(v) == v.t = "num"

\* mutant: `||` in the place of `??`
NullishOrFalsy(v) == ~Truthy(v)

\* the values for which `v ?? w` is w
Nullish(v) == v.t \in {"null", "absent"}

----------------------------------------------------------------------------
(* The Map<string, StockData>: at most one value per key *)

StockData(id, name, price, quantity, lastUpdated, createdAt) ==
    [id |-> id, name |-> name, price |-> price, quantity |-> quantity,
     lastUpdated |-> lastUpdated, createdAt |-> createdAt]

Keys(m) == {e.id : e \in m}
MapHas(m, id) == \E e \in m : e.id = id
MapGet(m, id) == CHOOSE e \in m : e.id = id
\* mutant: set appends instead of replacing the value under the key
MapSetAppend(m, e) == m \cup {e}

MapSet(m, e) == {x \in m : x.id # e.id} \cup {e}
\* mutant: delete empties the map
MapClear(m, id) == {}

MapDelete(m, id) == {x \in m : x.id # id}

----------------------------------------------------------------------------
(* cleanupExpiredData *)

\* mutant: an entry of exactly DATA_EXPIRY is swept too
ExpiredAtBoundary(e, t) == t - e.lastUpdated >= DATA_EXPIRY

Expired(e, t) == t - e.lastUpdated > DATA_EXPIRY

\* mutant: the sweep removes nothing
cleanupNothing(m, t) == m

cleanupExpiredData(m, t) == {e \in m : ~Expired(e, t)}

\* the keys the sweep reports with console.log
CleanupLog(m, t) == {e.id : e \in {x \in m : Expired(x, t)}}

----------------------------------------------------------------------------
(* authorize: TRUE when the request is let through (the function returns   *)
(* null), FALSE when it answers 401                                        *)

StatusKey == Str(<<"s","t","a","t","u","s">>)

\* mutant: the public key opens every method
authorizeAnyMethod(req, method) ==
    IF req.key = StatusKey THEN TRUE
    ELSE ~(~Truthy(req.auth) \/ req.auth # Str(validKey))

authorize(req, method) ==
    IF method = "GET" /\ req.key = StatusKey THEN TRUE
    ELSE ~(~Truthy(req.auth) \/ req.auth # Str(validKey))

----------------------------------------------------------------------------
(* Request bodies *)

NoStock == [t |-> "absent", items |-> <<>>]
Arr(items) == [t |-> "arr", items |-> items]
StockTruthy(a) == a.t # "absent"

Fruit(name, price) == [t |-> "obj", name |-> name, price |-> price]
NullFruit == [t |-> "null", name |-> Absent, price |-> Absent]

EmptyBody ==
    [ok |-> TRUE, sessionId |-> Absent, normalStock |-> NoStock,
     mirageStock |-> NoStock, name |-> Absent, price |-> Absent,
     quantity |-> Absent, id |-> Absent]

\* a body request.json() cannot parse
BadJSON == [EmptyBody EXCEPT !.ok = FALSE]

----------------------------------------------------------------------------
(* POST *)

BatchId(prefix, name, sessionId) ==
    prefix \o ReplaceWs(toLowerCase(name)) \o <<"-">> \o SliceLast(sessionId)

\* mutant: an element without a name or a numeric price fails the request
RECURSIVE ProcessStockStrict(_, _, _, _, _, _)
ProcessStockStrict(prefix, tag, items, sessionId, m, t) ==
    IF items = <<>> THEN [store |-> m, threw |-> FALSE, wrote |-> {}]
    ELSE LET fruit == Head(items) IN
         IF fruit.t = "null" \/ ~(Truthy(fruit.name) /\ IsNumber(fruit.price))
            \/ fruit.name.t # "str" \/ sessionId.t # "str"
         THEN [store |-> m, threw |-> TRUE, wrote |-> {}]
         ELSE LET id == BatchId(prefix, fruit.name.s, sessionId.s)
                  stockData == StockData(id, Str(fruit.name.s \o tag),
                                         fruit.price, Num(1), t, t)
                  rest == ProcessStockStrict(prefix, tag, Tail(items), sessionId,
                                             MapSet(m, stockData), t)
              IN [rest EXCEPT !.wrote = @ \cup {id}]

\* One `for (const fruit of body.<category>Stock)` loop, from store m. threw
\* tells that an element raised a TypeError, which ends the handler in its
\* catch block with the writes made so far in place; wrote is the ids set.
RECURSIVE ProcessStock(_, _, _, _, _, _)
ProcessStock(prefix, tag, items, sessionId, m, t) ==
    IF items = <<>> THEN [store |-> m, threw |-> FALSE, wrote |-> {}]
    ELSE LET fruit == Head(items) IN
         IF fruit.t = "null" THEN [store |-> m, threw |-> TRUE, wrote |-> {}]
         ELSE IF Truthy(fruit.name) /\ IsNumber(fruit.price) THEN
             IF fruit.name.t # "str" \/ sessionId.t # "str"
             THEN [store |-> m, threw |-> TRUE, wrote |-> {}]
             ELSE LET id == BatchId(prefix, fruit.name.s, sessionId.s)
                      stockData == StockData(id, Str(fruit.name.s \o tag),
                                             fruit.price, Num(1), t, t)
                      rest == ProcessStock(prefix, tag, Tail(items), sessionId,
                                           MapSet(m, stockData), t)
                  IN [rest EXCEPT !.wrote = @ \cup {id}]
         ELSE ProcessStock(prefix, tag, Tail(items), sessionId, m, t)

\* mutant: the generic-record test comes first, a batch being what fails it
IsBatchAfterGeneric(body) ==
    /\ Truthy(body.sessionId) /\ (StockTruthy(body.normalStock) \/ StockTruthy(body.mirageStock))
    /\ (~Truthy(body.name) \/ ~IsNumber(body.price) \/ ~IsNumber(body.quantity))

IsBatch(body) ==
    Truthy(body.sessionId) /\ (StockTruthy(body.normalStock) \/ StockTruthy(body.mirageStock))

\* mutant: only the first element of a category array is processed
StockItemsFirst(a) == IF a.t = "arr" /\ a.items # <<>> THEN <<Head(a.items)>> ELSE <<>>

StockItems(a) == IF a.t = "arr" THEN a.items ELSE <<>>

GenericId(name, t) == ReplaceWs(toLowerCase(name)) \o <<"-">> \o NumToString(t)

\* mutant: a batch POST answers once the normal stock is stored, the mirage stock
\* left for later
PostResultNormalOnly(body, m, t) ==
    LET normal == ProcessStock(NormalPrefix, NormalTag, StockItems(body.normalStock),
                               body.sessionId, m, t)
    IN [store |-> normal.store, status |-> IF body.ok /\ IsBatch(body) THEN 201 ELSE 500,
        data |-> {}, normalCount |-> Len(body.normalStock.items),
        mirageCount |-> Len(body.mirageStock.items), wrote |-> normal.wrote]

\* What the POST handler does after its await: the store it leaves, the status it
\* answers, the entry in the answer (data), the two counts of the batch summary,
\* and the ids it set.
PostResult(body, m, t) ==
    LET out(store, status, data, nc, mc, wrote) ==
            [store |-> store, status |-> status, data |-> data,
             normalCount |-> nc, mirageCount |-> mc, wrote |-> wrote]
    IN
    IF ~body.ok THEN out(m, 500, {}, 0, 0, {})
    ELSE IF IsBatch(body) THEN
        LET normal == ProcessStock(NormalPrefix, NormalTag, StockItems(body.normalStock),
                                   body.sessionId, m, t)
            mirage == ProcessStock(MiragePrefix, MirageTag, StockItems(body.mirageStock),
                                   body.sessionId, normal.store, t)
        IN IF normal.threw THEN out(normal.store, 500, {}, 0, 0, normal.wrote)
           ELSE IF mirage.threw
                THEN out(mirage.store, 500, {}, 0, 0, normal.wrote \cup mirage.wrote)
           ELSE out(mirage.store, 201, {}, Len(body.normalStock.items),
                    Len(body.mirageStock.items), normal.wrote \cup mirage.wrote)
    ELSE IF ~Truthy(body.name) \/ ~IsNumber(body.price) \/ ~IsNumber(body.quantity)
        THEN out(m, 400, {}, 0, 0, {})
    ELSE IF body.name.t # "str" THEN out(m, 500, {}, 0, 0, {})
    ELSE LET id == GenericId(body.name.s, t)
             newStock == StockData(id, body.name, body.price, body.quantity, t, t)
         IN out(MapSet(m, newStock), 201, {newStock}, 0, 0, {id})

----------------------------------------------------------------------------
(* PUT *)

\* the entry PUT merges the request into: the one in the store when it runs
PutExisting(body, m) == MapGet(m, body.id.s)

\* mutant: the merge stamps createdAt in the place of lastUpdated
PutMergeRestart(existingStock, body, t) ==
    [existingStock EXCEPT
        !.name = IF Nullish(body.name) THEN existingStock.name ELSE body.name,
        !.price = IF Nullish(body.price) THEN existingStock.price ELSE body.price,
        !.quantity = IF Nullish(body.quantity) THEN existingStock.quantity ELSE body.quantity,
        !.createdAt = t]

PutMerge(existingStock, body, t) ==
    [existingStock EXCEPT
        !.name = IF Nullish(body.name) THEN existingStock.name ELSE body.name,
        !.price = IF Nullish(body.price) THEN existingStock.price ELSE body.price,
        !.quantity = IF Nullish(body.quantity) THEN existingStock.quantity ELSE body.quantity,
        !.lastUpdated = t]

PutResult(body, m, t) ==
    LET out(store, status, data) == [store |-> store, status |-> status, data |-> data]
    IN
    IF ~body.ok THEN out(m, 500, {})
    ELSE IF ~Truthy(body.id) THEN out(m, 400, {})
    ELSE IF body.id.t # "str" \/ ~MapHas(m, body.id.s) THEN out(m, 404, {})
    ELSE LET updatedStock == PutMerge(PutExisting(body, m), body, t)
         IN out(MapSet(m, updatedStock), 200, {updatedStock})

----------------------------------------------------------------------------
(* PATCH *)

\* mutant: the ping restarts the entry
TouchCreated(existingStock, t) == [existingStock EXCEPT !.lastUpdated = t, !.createdAt = t]

Touch(existingStock, t) == [existingStock EXCEPT !.lastUpdated = t]

PatchResult(body, m, t) ==
    LET out(store, status, data) == [store |-> store, status |-> status, data |-> data]
    IN
    IF ~body.ok THEN out(m, 500, {})
    ELSE IF ~Truthy(body.id) THEN out(m, 400, {})
    ELSE IF body.id.t # "str" \/ ~MapHas(m, body.id.s) THEN out(m, 404, {})
    ELSE LET existingStock == Touch(MapGet(m, body.id.s), t)
         IN out(MapSet(m, existingStock), 200, {existingStock})

----------------------------------------------------------------------------
(* DELETE *)

\* mutant: only ids that end with the suffix are matched
SessionMatchesAtEnd(m, sessionId) ==
    {e \in m : LET suffix == SliceLast(sessionId)
               IN Len(e.id) >= Len(suffix)
                  /\ SubSeq(e.id, Len(e.id) - Len(suffix) + 1, Len(e.id)) = suffix}

\* the entries a session clean-up deletes
SessionMatches(m, sessionId) == {e \in m : Includes(e.id, SliceLast(sessionId))}

\* DELETE without an id query parameter, after its await
DeleteSessionResult(body, m) ==
    LET out(store, status, count) ==
            [store |-> store, status |-> status, data |-> {}, count |-> count]
    IN
    IF ~body.ok THEN out(m, 400, 0)
    ELSE IF ~Truthy(body.sessionId) THEN out(m, 400, 0)
    ELSE IF body.sessionId.t # "str" THEN out(m, 400, 0)
    ELSE LET gone == SessionMatches(m, body.sessionId.s)
         IN out(m \ gone, 200, Cardinality(gone))

\* DELETE with an id query parameter: no await is reached
DeleteIdResult(id, m) ==
    IF ~MapHas(m, id)
    THEN [store |-> m, status |-> 404, data |-> {}, count |-> 0]
    ELSE [store |-> MapDelete(m, id), status |-> 200, data |-> {MapGet(m, id)}, count |-> 0]

----------------------------------------------------------------------------
(* GET: the sweep, then the read; access is the `access: "public"` marker *)

\* mutant: a public GET reads the store as it is, without the sweep
GetResultPublicUnswept(req, m, t) ==
    LET live == IF req.key = StatusKey THEN m ELSE cleanupExpiredData(m, t)
        out(status, data, count) ==
            [store |-> live, status |-> status, data |-> data, count |-> count,
             access |-> req.key = StatusKey]
    IN
    IF Truthy(req.id) THEN
        IF ~MapHas(live, req.id.s) THEN out(404, {}, 0)
        ELSE out(200, {MapGet(live, req.id.s)}, 0)
    ELSE out(200, live, Cardinality(live))

GetResult(req, m, t) ==
    LET live == cleanupExpiredData(m, t)
        isPublicAccess == req.key = StatusKey
        out(status, data, count) ==
            [store |-> live, status |-> status, data |-> data, count |-> count,
             access |-> isPublicAccess]
    IN
    IF Truthy(req.id) THEN
        IF ~MapHas(live, req.id.s) THEN out(404, {}, 0)
        ELSE out(200, {MapGet(live, req.id.s)}, 0)
    ELSE out(200, live, Cardinality(live))

----------------------------------------------------------------------------
(* The requests the clients send *)

Request(method, key, auth, id, body) ==
    [method |-> method, key |-> key, auth |-> auth, id |-> id, body |-> body]

NoRequest == Request("none", Absent, Absent, Absent, EmptyBody)

NameA == <<"A">>
NameLowerA == <<"a">>
NameBC == <<"b", " ", " ", "C">>
NameZ == <<"Z">>
NotANumber == Str(<<"x">>)

\* two sessions that share their last 8 characters, one with a short id, and one
\* that shares no suffix with the others
SidA == <<"a","0","0","0","0","0","0","0","1">>
SidB == <<"b","0","0","0","0","0","0","0","1">>
SidC == <<"0","0">>
SidD == <<"d","0","0","0","0","0","0","0","2">>

UnknownId == <<"n","o","n","e">>

Batch(sessionId, normalStock, mirageStock) ==
    [EmptyBody EXCEPT !.sessionId = sessionId, !.normalStock = normalStock,
                      !.mirageStock = mirageStock]

Generic(name, price, quantity) ==
    [EmptyBody EXCEPT !.name = name, !.price = price, !.quantity = quantity]

PostBodies ==
    { Batch(Str(SidA), Arr(<<Fruit(Str(NameA), Num(1))>>), NoStock),
      Batch(Str(SidA), Arr(<<Fruit(Str(NameA), Num(2))>>),
                       Arr(<<Fruit(Str(NameA), Num(1))>>)),
      Batch(Str(SidB), Arr(<<Fruit(Str(NameA), Num(1))>>), NoStock),
      Batch(Str(SidD), NoStock, Arr(<<Fruit(Str(NameBC), Num(2))>>)),
      Batch(Str(SidA), Arr(<<Fruit(Str(NameA), Num(1)), NullFruit>>), NoStock),
      Batch(Str(SidA), Arr(<<Fruit(Str(NameA), Num(1)), Fruit(Str(NameLowerA), Num(2))>>),
                       NoStock),
      Batch(Str(SidA), Arr(<<Fruit(Absent, Num(1)), Fruit(Str(NameA), NotANumber)>>), NoStock),
      Batch(Str(SidA), Arr(<<Fruit(Absent, Num(1)), Fruit(Str(NameA), Num(1)),
                             Fruit(Str(NameA), NotANumber)>>), NoStock),
      Batch(Num(7), Arr(<<Fruit(Str(NameA), Num(1))>>), NoStock),
      Generic(Str(NameA), Num(1), Num(1)),
      Generic(Str(NameA), NotANumber, Num(1)),
      Generic(Str(NameA), Num(1), NotANumber),
      Generic(Absent, Num(1), Num(1)),
      Generic(Str(NameBC), Num(0), Num(3)),
      \* bodies with the marks of both shapes, or with half the marks of a batch
      [Batch(Str(SidA), Arr(<<Fruit(Str(NameA), Num(1))>>), NoStock)
          EXCEPT !.name = Str(NameA), !.price = Num(1), !.quantity = Num(1)],
      [Generic(Str(NameA), Num(1), Num(1)) EXCEPT !.sessionId = Str(SidA)],
      Batch(Str(SidA), NoStock, NoStock),
      Batch(Str(SidA), Arr(<<>>), NoStock),
      Batch(Str(<<>>), Arr(<<Fruit(Str(NameA), Num(1))>>), NoStock),
      [Batch(Absent, Arr(<<Fruit(Str(NameA), Num(1))>>), NoStock)
          EXCEPT !.name = Str(NameA), !.price = Num(1), !.quantity = Num(1)],
      BadJSON }

PutBodies(ids) ==
    { [EmptyBody EXCEPT !.id = Str(i), !.price = Num(2)] : i \in ids }
    \cup { [EmptyBody EXCEPT !.price = Num(2)], BadJSON }

PatchBodies(ids) ==
    { [EmptyBody EXCEPT !.id = Str(i)] : i \in ids } \cup { EmptyBody, BadJSON }

DeleteBodies ==
    { [EmptyBody EXCEPT !.sessionId = Str(sid)] : sid \in {SidA, SidC} }
    \cup { [EmptyBody EXCEPT !.sessionId = Num(7)], EmptyBody, BadJSON }

\* the ids a client may address: those in the store and one that is not
TargetIds == Keys(stocksData) \cup {UnknownId}

\* credentials: <<key query parameter, Authorization header>>
Secret == <<Absent, Str(validKey)>>
Public == <<StatusKey, Absent>>
BadCredentials == {Public, <<Absent, NotANumber>>, <<Absent, Absent>>}

With(cred, method, id, body) == Request(method, cred[1], cred[2], id, body)

GetRequests ==
    {With(cred, "GET", id, EmptyBody) :
        cred \in {Secret, Public}, id \in {Absent} \cup {Str(i) : i \in TargetIds}}
    \cup {With(cred, "GET", Absent, EmptyBody) : cred \in BadCredentials}

PostRequests ==
    {With(Secret, "POST", Absent, body) : body \in PostBodies}
    \cup {With(cred, "POST", Absent,
               Batch(Str(SidA), Arr(<<Fruit(Str(NameA), Num(1))>>), NoStock)) :
          cred \in BadCredentials}

PutRequests ==
    {With(Secret, "PUT", Absent, body) : body \in PutBodies(TargetIds)}
    \cup {With(cred, "PUT", Absent, body) :
          cred \in BadCredentials, body \in PutBodies(Keys(stocksData))}

PatchRequests ==
    {With(Secret, "PATCH", Absent, body) : body \in PatchBodies(TargetIds)}
    \cup {With(cred, "PATCH", Absent, body) :
          cred \in BadCredentials, body \in PatchBodies(Keys(stocksData))}

\* DELETE with an id query parameter; a sessionId in its body is not read
DeleteIdRequests ==
    {With(Secret, "DELETE", Str(i), body) :
        i \in TargetIds, body \in {EmptyBody, [EmptyBody EXCEPT !.sessionId = Str(SidA)]}}
    \cup {With(cred, "DELETE", Str(i), EmptyBody) :
          cred \in BadCredentials, i \in Keys(stocksData)}

\* DELETE without an id query parameter
DeleteSessionRequests ==
    {With(Secret, "DELETE", Absent, body) : body \in DeleteBodies}
    \cup {With(cred, "DELETE", Absent, [EmptyBody EXCEPT !.sessionId = Str(SidA)]) :
          cred \in BadCredentials}

----------------------------------------------------------------------------
(* The state machine.  A handler is synchronous but for its one            *)
(* `await request.json()`, which comes before its first access to the      *)
(* store.  Next runs every handler from its call to its answer in one      *)
(* step; NextAsync separates a handler's call (up to the await) from its   *)
(* resumption, with other handlers and the timer running in between.       *)

\* the outcome of a handler: the store it leaves and what it answers
Outcome(store, status, data, count, normalCount, mirageCount, wrote) ==
    [store |-> store, status |-> status, data |-> data, count |-> count,
     normalCount |-> normalCount, mirageCount |-> mirageCount, wrote |-> wrote]

\* resp: the operation, its request and answer, the keys the sweep logged, and (as
\* history) the entries of the store from before the step that it replaced or
\* removed, and the keys whose entry changed while the handler was suspended
Response(op, req, out, log, raced) ==
    [op |-> op, req |-> req, status |-> out.status, data |-> out.data,
     count |-> out.count, normalCount |-> out.normalCount,
     mirageCount |-> out.mirageCount, log |-> log,
     replaced |-> stocksData \ out.store, raced |-> raced]

Idle(op) ==
    [op |-> op, req |-> NoRequest, status |-> 0, data |-> {}, count |-> 0,
     normalCount |-> 0, mirageCount |-> 0, log |-> {}, replaced |-> {}, raced |-> {}]

\* origin after a step that leaves store m and set the ids in wrote on behalf of by
OriginAfter(m, wrote, by) ==
    {o \in origin : o.id \notin wrote /\ o.id \in Keys(m)}
    \cup {[id |-> i, by |-> by] : i \in wrote \cap Keys(m)}

\* suspended handlers, with the keys whose entry a step to store m changes
\* under them added to their history
Marked(hs, m) ==
    {[h EXCEPT !.raced = @ \cup Keys((m \ stocksData) \cup (stocksData \ m))] : h \in hs}

Init ==
    /\ stocksData = {}
    /\ now = 0
    /\ nextFire = CLEANUP_INTERVAL
    /\ inflight = {}
    /\ resp = Idle("start")
    /\ origin = {}

\* authorize answers 401: nothing else of the handler runs
Unauthorized(req) ==
    /\ resp' = Response(req.method, req,
                        Outcome(stocksData, 401, {}, 0, 0, 0, {}), {}, {})
    /\ UNCHANGED <<stocksData, now, nextFire, inflight, origin>>

\* what a handler does after its await
AfterAwait(req) ==
    CASE req.method = "POST" ->
            LET r == PostResult(req.body, stocksData, now)
            IN Outcome(r.store, r.status, r.data, 0, r.normalCount, r.mirageCount, r.wrote)
      [] req.method = "PUT" ->
            LET r == PutResult(req.body, stocksData, now)
            IN Outcome(r.store, r.status, r.data, 0, 0, 0, {})
      [] req.method = "PATCH" ->
            LET r == PatchResult(req.body, stocksData, now)
            IN Outcome(r.store, r.status, r.data, 0, 0, 0, {})
      [] req.method = "DELETE" ->
            LET r == DeleteSessionResult(req.body, stocksData)
            IN Outcome(r.store, r.status, r.data, r.count, 0, 0, {})

\* the handler runs from its await to its answer
Finish(req, raced, others) ==
    LET out == AfterAwait(req)
    IN /\ Cardinality(out.store) <= MaxEntries
       /\ stocksData' = out.store
       /\ resp' = Response(req.method, req, out, {}, raced)
       /\ origin' = OriginAfter(out.store, out.wrote,
                                IF IsBatch(req.body) /\ req.body.sessionId.t = "str"
                                THEN req.body.sessionId.s ELSE <<>>)
       /\ inflight' = Marked(others, out.store)
       /\ UNCHANGED <<now, nextFire>>

\* a handler without an await, or one that answers before it
Sync(op, req, out, log) ==
    /\ stocksData' = out.store
    /\ resp' = Response(op, req, out, log, {})
    /\ origin' = OriginAfter(out.store, {}, <<>>)
    /\ inflight' = Marked(inflight, out.store)
    /\ UNCHANGED <<now, nextFire>>

\* a handler with an await, from its call to its answer
Handle(req) ==
    IF ~authorize(req, req.method) THEN Unauthorized(req)
    ELSE Finish(req, {}, inflight)

Get(req) ==
    LET r == GetResult(req, stocksData, now)
    IN IF ~authorize(req, "GET") THEN Unauthorized(req)
       ELSE Sync("GET", req, Outcome(r.store, r.status, r.data, r.count, 0, 0, {}),
                 CleanupLog(stocksData, now))

DeleteId(req) ==
    LET r == DeleteIdResult(req.id.s, stocksData)
    IN IF ~authorize(req, "DELETE") THEN Unauthorized(req)
       ELSE Sync("DELETE", req, Outcome(r.store, r.status, r.data, 0, 0, 0, {}), {})

\* setInterval(cleanupExpiredData, CLEANUP_INTERVAL)
Timer ==
    /\ now = nextFire
    /\ stocksData' = cleanupExpiredData(stocksData, now)
    /\ nextFire' = nextFire + CLEANUP_INTERVAL
    /\ resp' = Response("timer", NoRequest,
                        Outcome(stocksData', 0, {}, 0, 0, 0, {}),
                        CleanupLog(stocksData, now), {})
    /\ origin' = OriginAfter(stocksData', {}, <<>>)
    /\ inflight' = Marked(inflight, stocksData')
    /\ UNCHANGED now

\* time passes up to horizon, never past the moment the timer is due
Pass(horizon) ==
    \E d \in {1} \cup {CLEANUP_INTERVAL - j : j \in 0..MaxJitter} :
        /\ now + d <= nextFire
        /\ (now + d) % CLEANUP_INTERVAL <= MaxJitter
        /\ now + d <= horizon
        /\ now' = now + d
        /\ resp' = Idle("tick")
        /\ UNCHANGED <<stocksData, nextFire, inflight, origin>>

----------------------------------------------------------------------------
(* Spec: every handler, with every request of the menus, in the first      *)
(* milliseconds of the process                                             *)

GET == \E req \in GetRequests : Get(req)

POST == \E req \in PostRequests : Handle(req)

PUT == \E req \in PutRequests : Handle(req)

PATCH == \E req \in PatchRequests : Handle(req)

DELETEId == \E req \in DeleteIdRequests : DeleteId(req)

DELETESession == \E req \in DeleteSessionRequests : Handle(req)

Tick == Pass(MaxJitter)

Next ==
    \/ GET
    \/ POST
    \/ PUT
    \/ PATCH
    \/ DELETEId
    \/ DELETESession
    \/ Tick

Spec == Init /\ [][Next]_vars

----------------------------------------------------------------------------
(* SpecExpiry: entries are written, kept alive and read while the clock    *)
(* runs through MaxIntervals periods of the timer                          *)

Write ==
    \E body \in { Batch(Str(SidA), Arr(<<Fruit(Str(NameA), Num(1))>>), NoStock),
                  Batch(Str(SidD), NoStock, Arr(<<Fruit(Str(NameBC), Num(2))>>)) } :
        Handle(With(Secret, "POST", Absent, body))

KeepAlive ==
    \E i \in TargetIds : Handle(With(Secret, "PATCH", Absent, [EmptyBody EXCEPT !.id = Str(i)]))

Read ==
    \E cred \in {Secret, Public}, id \in {Absent} \cup {Str(i) : i \in TargetIds} :
        Get(With(cred, "GET", id, EmptyBody))

\* requests of every method that authorize turns away
Refuse ==
    \E cred \in BadCredentials :
        \/ Get(With(cred, "GET", Absent, EmptyBody))
        \/ \E method \in {"POST", "PUT", "PATCH"} :
              Handle(With(cred, method, Absent,
                          Batch(Str(SidA), Arr(<<Fruit(Str(NameA), Num(1))>>), NoStock)))
        \/ DeleteId(With(cred, "DELETE", Str(BatchId(NormalPrefix, NameA, SidA)), EmptyBody))
        \/ Handle(With(cred, "DELETE", Absent, [EmptyBody EXCEPT !.sessionId = Str(SidA)]))

Elapse == Pass(MaxIntervals * CLEANUP_INTERVAL + MaxJitter)

NextExpiry ==
    \/ Write
    \/ KeepAlive
    \/ Read
    \/ Refuse
    \/ Timer
    \/ Elapse

SpecExpiry == Init /\ [][NextExpiry]_vars

----------------------------------------------------------------------------
(* SpecAsync: a handler's call, up to its await, and its resumption are    *)
(* separate steps; other handlers and the timer run in between             *)

\* the handler reaches `await request.json()` and yields
Suspend(req) ==
    /\ Cardinality(inflight) < MaxInflight
    /\ inflight' = inflight \cup {[req |-> req, raced |-> {}]}
    /\ resp' = Idle("await")
    /\ UNCHANGED <<stocksData, now, nextFire, origin>>

Call(req) ==
    IF ~authorize(req, req.method) THEN Unauthorized(req) ELSE Suspend(req)

POSTCall ==
    Call(With(Secret, "POST", Absent,
              Batch(Str(SidA), Arr(<<Fruit(Str(NameA), Num(2))>>),
                               Arr(<<Fruit(Str(NameA), Num(1))>>))))

PUTCall ==
    \E i \in TargetIds :
        Call(With(Secret, "PUT", Absent, [EmptyBody EXCEPT !.id = Str(i), !.price = Num(3)]))

DELETECall ==
    Call(With(Secret, "DELETE", Absent, [EmptyBody EXCEPT !.sessionId = Str(SidA)]))

Resume == \E h \in inflight : Finish(h.req, h.raced, inflight \ {h})

List == Get(With(Public, "GET", Absent, EmptyBody))

NextAsync ==
    \/ POSTCall
    \/ PUTCall
    \/ DELETECall
    \/ Resume
    \/ List
    \/ Timer
    \/ Elapse

SpecAsync == Init /\ [][NextAsync]_vars

----------------------------------------------------------------------------
(* SpecUpdate: entries are created and then updated by PUT with every      *)
(* combination of fields the merge tells apart                             *)

UpdateBodies(ids) ==
    UNION { { [EmptyBody EXCEPT !.id = Str(i)],
              [EmptyBody EXCEPT !.id = Str(i), !.price = Num(0)],
              [EmptyBody EXCEPT !.id = Str(i), !.name = Str(NameZ)],
              [EmptyBody EXCEPT !.id = Str(i), !.quantity = Num(3)],
              [EmptyBody EXCEPT !.id = Str(i), !.name = Str(NameZ), !.price = Num(2),
                                !.quantity = Num(3)],
              [EmptyBody EXCEPT !.id = Str(i), !.name = Null, !.price = Null,
                                !.quantity = Null] } : i \in ids }
    \cup { [EmptyBody EXCEPT !.price = Num(2)],
           [EmptyBody EXCEPT !.id = Str(<<>>), !.price = Num(2)],
           [EmptyBody EXCEPT !.id = Num(7), !.price = Num(2)],
           BadJSON }

UpdateRequests == {With(Secret, "PUT", Absent, body) : body \in UpdateBodies(TargetIds)}

Create ==
    \E body \in { Batch(Str(SidA), Arr(<<Fruit(Str(NameA), Num(1))>>), NoStock),
                  Batch(Str(SidD), NoStock, Arr(<<Fruit(Str(NameBC), Num(2))>>)) } :
        Handle(With(Secret, "POST", Absent, body))

Update == \E req \in UpdateRequests : Handle(req)

NextUpdate ==
    \/ Create
    \/ Update
    \/ Tick

SpecUpdate == Init /\ [][NextUpdate]_vars

----------------------------------------------------------------------------
(* Properties *)

Methods == {"GET", "POST", "PUT", "PATCH", "DELETE"}

\* the step just taken is handler op answering status
Answered(op, status) == resp'.op = op /\ resp'.status = status

\* what a batch POST leaves in the store for a category array, as <<id, price>>:
\* for each derived id, the last element that has a name and a numeric price
Stored(prefix, stock, sessionId) ==
    LET valid == {n \in 1..Len(stock.items) :
                     /\ stock.items[n].t = "obj"
                     /\ Truthy(stock.items[n].name)
                     /\ IsNumber(stock.items[n].price)}
        Id(k) == BatchId(prefix, stock.items[k].name.s, sessionId)
        last == {k \in valid : \A j \in valid : j > k => Id(j) # Id(k)}
    IN {<<Id(k), stock.items[k].price>> : k \in last}

StoredBy(body) ==
    Stored(NormalPrefix, body.normalStock, body.sessionId.s)
    \cup Stored(MiragePrefix, body.mirageStock, body.sessionId.s)

\* C1: createdAt is set when an id is first inserted and never changes: whatever
\* the step, an id that is in the store before and after it keeps its createdAt.
CreatedAtNeverChanges ==
    [][\A e \in stocksData : \A f \in stocksData' :
          f.id = e.id => f.createdAt = e.createdAt]_vars

\* C4: a POST, PUT, DELETE or PATCH that answers 400, 404 or 500 leaves the store
\* exactly as it was before the request.
ErrorLeavesStore ==
    [][(resp'.op \in Methods /\ resp'.status \in {400, 404, 500})
          => stocksData' = stocksData]_vars

\* the step just taken is a session DELETE (no id query parameter) answering 200
SessionDeleted ==
    /\ Answered("DELETE", 200)
    /\ resp'.req.id = Absent

\* C5 as stated: a session DELETE removes every entry whose id contains the last 8
\* characters of sessionId, counts them, and leaves every entry set by another
\* session or by a generic-record POST in the store.
SessionDeleteSparesOthers ==
    [][SessionDeleted =>
          LET sessionId == resp'.req.body.sessionId.s
          IN /\ \A e \in stocksData :
                    Includes(e.id, SliceLast(sessionId)) => e \notin stocksData'
             /\ resp'.count = Cardinality(stocksData \ stocksData')
             /\ \A e \in stocksData :
                    (\E o \in origin : o.id = e.id /\ o.by # sessionId)
                        => e \in stocksData']_vars

\* C5 as amended: a session DELETE removes exactly the entries whose id contains
\* the last 8 characters of sessionId (all of sessionId when it is shorter),
\* whoever set them, counts them, and leaves every other entry as it was.
SessionDeleteBySubstring ==
    [][SessionDeleted =>
          LET sessionId == resp'.req.body.sessionId.s
          IN /\ \A e \in stocksData :
                    Includes(e.id, SliceLast(sessionId)) => e \notin stocksData'
             /\ resp'.count = Cardinality(stocksData \ stocksData')
             /\ \A e \in stocksData :
                    ~Includes(e.id, SliceLast(sessionId)) => e \in stocksData'
             /\ stocksData' \subseteq stocksData]_vars

\* a session DELETE has removed the entry another session set under an id that
\* contains its suffix, and has left an entry that does not contain it
SessionDeleteWitness ==
    /\ resp.op = "DELETE" /\ resp.status = 200 /\ resp.req.id = Absent
    /\ resp.count = 1
    /\ \E r \in resp.replaced : Includes(r.id, SliceLast(resp.req.body.sessionId.s))
    /\ \E e \in stocksData : ~Includes(e.id, SliceLast(resp.req.body.sessionId.s))

\* the step just taken is a session batch POST answering 201
BatchStored ==
    /\ Answered("POST", 201)
    /\ IsBatch(resp'.req.body)

\* C6 as stated: a batch POST that writes an id already in the store under another
\* price leaves one entry under that id, with the later price and a lastUpdated
\* beyond the one it had.
UpsertAdvancesLastUpdated ==
    [][BatchStored =>
          \A w \in StoredBy(resp'.req.body) : \A e \in stocksData :
              (e.id = w[1] /\ e.price # w[2]) =>
                  /\ Cardinality({f \in stocksData' : f.id = w[1]}) = 1
                  /\ \A f \in stocksData' :
                        f.id = w[1] => f.price = w[2] /\ f.lastUpdated > e.lastUpdated]_vars

\* C6 as amended: it leaves one entry under that id, with the later price and the
\* time of the later write as lastUpdated, which is not before the one it had.
UpsertKeepsOneEntry ==
    [][BatchStored =>
          \A w \in StoredBy(resp'.req.body) : \A e \in stocksData :
              (e.id = w[1] /\ e.price # w[2]) =>
                  /\ Cardinality({f \in stocksData' : f.id = w[1]}) = 1
                  /\ \A f \in stocksData' :
                        f.id = w[1] => /\ f.price = w[2]
                                       /\ f.lastUpdated = now
                                       /\ f.lastUpdated >= e.lastUpdated]_vars

\* a batch POST has replaced an entry by one with another price and a later
\* lastUpdated
UpsertWitness ==
    /\ resp.op = "POST" /\ resp.status = 201 /\ IsBatch(resp.req.body)
    /\ \E r \in resp.replaced : \E f \in stocksData :
          f.id = r.id /\ f.price # r.price /\ f.lastUpdated > r.lastUpdated

\* C9: PATCH on an id that is not in the store answers 404 and changes nothing;
\* PATCH on an id in the store sets that entry's lastUpdated to the current time
\* and changes no other field of it and no other entry.
PatchTouchesLastUpdatedOnly ==
    [][(resp'.op = "PATCH" /\ resp'.status # 401 /\ resp'.req.body.ok
            /\ resp'.req.body.id.t = "str" /\ resp'.req.body.id.s # <<>>) =>
          LET id == resp'.req.body.id.s
          IN IF \A e \in stocksData : e.id # id
             THEN resp'.status = 404 /\ stocksData' = stocksData
             ELSE /\ resp'.status = 200
                  /\ \A e \in stocksData : e.id # id => e \in stocksData'
                  /\ \A f \in stocksData' : f.id # id => f \in stocksData
                  /\ \A e \in stocksData : e.id = id =>
                        \E f \in stocksData' :
                            /\ {g \in stocksData' : g.id = id} = {f}
                            /\ f.name = e.name /\ f.price = e.price
                            /\ f.quantity = e.quantity /\ f.createdAt = e.createdAt
                            /\ f.lastUpdated = now]_vars

\* a PATCH has moved the lastUpdated of one of two entries
PatchWitness ==
    /\ resp.op = "PATCH" /\ resp.status = 200
    /\ Cardinality(stocksData) = 2
    /\ \E r \in resp.replaced : \E f \in stocksData :
          f.id = r.id /\ f.id = resp.req.body.id.s /\ f.lastUpdated > r.lastUpdated


\* C2: a GET answers no entry that is dead at the time it is handled, in its list
\* form and in its ?id= form, and answers 404 to the id of a dead entry.
ReadsNoDeadEntry ==
    [][(resp'.op = "GET" /\ resp'.status # 401) =>
          /\ \A e \in resp'.data : now - e.lastUpdated <= DATA_EXPIRY
          /\ \A e \in stocksData :
                (resp'.req.id = Str(e.id) /\ now - e.lastUpdated > DATA_EXPIRY)
                    => resp'.status = 404 /\ resp'.data = {}]_vars

\* a GET ?id= has answered 404 for an entry that was in the store and dead, and a
\* list GET can then no longer see it
DeadReadWitness ==
    /\ resp.op = "GET" /\ resp.status = 404
    /\ \E r \in resp.replaced :
          resp.req.id = Str(r.id) /\ now - r.lastUpdated > DATA_EXPIRY

\* C3: a sweep, by the timer or by a GET, removes the entries with
\* now - lastUpdated > DATA_EXPIRY and no other, and changes none; an entry of
\* exactly DATA_EXPIRY stays.
SweepRemovesExactlyExpired ==
    [][(resp'.op = "timer" \/ (resp'.op = "GET" /\ resp'.status # 401)) =>
          /\ \A e \in stocksData :
                e \in stocksData' <=> now - e.lastUpdated <= DATA_EXPIRY
          /\ stocksData' \subseteq stocksData
          /\ resp'.log = {e.id : e \in stocksData \ stocksData'}]_vars

\* the timer has swept one entry and kept one that is exactly DATA_EXPIRY old
SweepWitness ==
    /\ resp.op = "timer"
    /\ resp.log # {}
    /\ \E e \in stocksData : now - e.lastUpdated = DATA_EXPIRY

\* C8: authorize lets a request through only if it is a GET with key=status or
\* carries the shared secret as its Authorization header; any other request is
\* answered 401, and the store is as before: nothing written, nothing swept.
OnlyAuthorizedPass ==
    [][resp'.op \in Methods =>
          LET req == resp'.req
              pass == \/ req.method = "GET" /\ req.key = StatusKey
                      \/ req.auth = Str(validKey)
          IN /\ resp'.status = 401 <=> ~pass
             /\ resp'.status = 401 =>
                    /\ stocksData' = stocksData
                    /\ resp'.log = {} /\ resp'.replaced = {} /\ resp'.data = {}]_vars

\* a POST with key=status and no header was answered 401 while the store held an
\* entry a sweep would have removed
RefusedWitness ==
    /\ resp.op = "POST" /\ resp.status = 401
    /\ resp.req.key = StatusKey /\ resp.req.auth = Absent
    /\ \E e \in stocksData : now - e.lastUpdated > DATA_EXPIRY

\* C10: with the timer firing every CLEANUP_INTERVAL, an entry last updated at t
\* is no longer in the store once t + 15 minutes has passed, whether or not
\* anybody reads.
SweptWithinFifteenMinutes ==
    \A e \in stocksData : now - e.lastUpdated <= 15 * 60 * 1000

\* the timer has removed an entry exactly 15 minutes after its last update
TimerSweepWitness ==
    /\ resp.op = "timer"
    /\ \E r \in resp.replaced : now - r.lastUpdated = 15 * 60 * 1000


\* two entries that one batch of a session stores: the same name and suffix under
\* the two categories
Siblings(e, f) ==
    /\ Len(e.id) > Len(NormalPrefix) /\ Len(f.id) > Len(MiragePrefix)
    /\ SubSeq(e.id, 1, Len(NormalPrefix)) = NormalPrefix
    /\ SubSeq(f.id, 1, Len(MiragePrefix)) = MiragePrefix
    /\ SubSeq(e.id, Len(NormalPrefix) + 1, Len(e.id))
          = SubSeq(f.id, Len(MiragePrefix) + 1, Len(f.id))

\* C7: with handlers suspended at their await and the timer firing in between, a
\* handler's call up to its await leaves the store alone; the step that resumes a
\* batch POST stores the whole batch, so that no state holds one half of a batch
\* beside the other half of an older one; the step that resumes a PUT merges the
\* request into the entry as the store holds it at that moment, whatever was
\* written while the PUT was suspended; and the step that resumes a session
\* DELETE removes every matching entry.
HandlersAreAtomic ==
    [][/\ resp'.op = "await" => stocksData' = stocksData
       /\ BatchStored =>
             /\ \A w \in StoredBy(resp'.req.body) : \E f \in stocksData' :
                   /\ f.id = w[1] /\ f.price = w[2]
                   /\ f.lastUpdated = now /\ f.createdAt = now
             /\ \A f \in stocksData' :
                   f \in stocksData \/ \E w \in StoredBy(resp'.req.body) : f.id = w[1]
       /\ \A e \in stocksData' : \A f \in stocksData' :
             Siblings(e, f) => e.createdAt = f.createdAt
       /\ Answered("PUT", 200) =>
             \E e \in stocksData :
                /\ e.id = resp'.req.body.id.s
                /\ stocksData' = (stocksData \ {e}) \cup
                      {[e EXCEPT !.price = resp'.req.body.price, !.lastUpdated = now]}
       /\ SessionDeleted =>
             /\ \A f \in stocksData' :
                   ~Includes(f.id, SliceLast(resp'.req.body.sessionId.s))
             /\ stocksData' \subseteq stocksData]_vars

\* a PUT has resumed on an entry that another handler rewrote while the PUT was
\* suspended, with another handler still suspended
RacedPutWitness ==
    /\ resp.op = "PUT" /\ resp.status = 200
    /\ resp.req.body.id.s \in resp.raced
    /\ inflight # {}


\* the positions of a category array whose element has a name and a numeric price
ValidItems(stock) ==
    {k \in 1..Len(stock.items) :
        /\ stock.items[k].t = "obj"
        /\ stock.items[k].name.t = "str" /\ stock.items[k].name.s # <<>>
        /\ stock.items[k].price.t = "num"}

\* of these, the last one for each derived id
LastItems(prefix, stock, sessionId) ==
    {k \in ValidItems(stock) :
        \A j \in ValidItems(stock) :
            j > k => BatchId(prefix, stock.items[j].name.s, sessionId)
                        # BatchId(prefix, stock.items[k].name.s, sessionId)}

\* <<id, name, price>> of the entry the claim derives from the elements at ks
Derived(prefix, tag, stock, sessionId, ks) ==
    {<<prefix \o ReplaceWs(toLowerCase(stock.items[k].name.s)) \o <<"-">> \o SliceLast(sessionId),
       Str(stock.items[k].name.s \o tag), stock.items[k].price>> : k \in ks}

\* the store after the step holds one entry for each of xs, with quantity 1, and
\* differs from the store before it at the ids of xs only
StoresExactly(xs) ==
    /\ \A x \in xs :
          /\ Cardinality({f \in stocksData' : f.id = x[1]}) = 1
          /\ \E f \in stocksData' :
                f.id = x[1] /\ f.name = x[2] /\ f.price = x[3] /\ f.quantity = Num(1)
    /\ \A f \in stocksData' : f \in stocksData \/ \E x \in xs : f.id = x[1]
    /\ \A e \in stocksData : (\A x \in xs : e.id # x[1]) => e \in stocksData'

SkippedItems(stock) ==
    {k \in 1..Len(stock.items) :
        /\ stock.items[k].t = "obj"
        /\ \/ stock.items[k].name.t \in {"absent", "null"}
           \/ stock.items[k].name = Str(<<>>)
           \/ stock.items[k].price.t # "num"}

\* a batch of a session whose elements are all of the two kinds: with a name and a
\* numeric price, or lacking one of them
PlainBatch(body) ==
    /\ body.ok /\ IsBatch(body) /\ body.sessionId.t = "str"
    /\ \A stock \in {body.normalStock, body.mirageStock} :
          ValidItems(stock) \cup SkippedItems(stock) = 1..Len(stock.items)

PublicReadsAsAuthenticated ==
    [][(resp'.op = "GET" /\ resp'.status # 401) =>
          \A cred \in {Secret, Public} :
              LET twin == GetResult(With(cred, "GET", resp'.req.id, EmptyBody),
                                    stocksData, now)
              IN /\ twin.status = resp'.status
                 /\ twin.data = resp'.data
                 /\ twin.count = resp'.count
                 /\ twin.store = stocksData'
                 /\ twin.access = (cred = Public)]_vars

\* a public GET has listed a live entry after sweeping a dead one
PublicReadWitness ==
    /\ resp.op = "GET" /\ resp.status = 200
    /\ resp.req.key = StatusKey /\ resp.req.auth = Absent /\ resp.req.id = Absent
    /\ resp.data # {} /\ resp.count = 1
    /\ resp.log # {}


LastUpdatedNotBeforeCreatedAt ==
    \A e \in stocksData : e.lastUpdated >= e.createdAt

\* a PUT or a PATCH has left an entry updated after it was created, beside an entry
\* a POST has just created
UpdatedAfterCreatedWitness ==
    /\ resp.op \in {"PUT", "PATCH"} /\ resp.status = 200
    /\ \E e \in stocksData : e.id = resp.req.body.id.s /\ e.lastUpdated > e.createdAt
    /\ \E e \in stocksData : e.lastUpdated = e.createdAt /\ e.createdAt = now


\* C16: a POST that is not handled as a session batch answers 400 and leaves the
\* store as it was when its name is missing or its price or quantity is not a
\* number; otherwise it answers 201 with the entry it stores: one entry, under the
\* id made of the normalised name and the current time, with the name, price and
\* quantity of the request, both timestamps the current time, and no other entry
\* changed.
GenericPostValidates ==
    [][(/\ resp'.op = "POST" /\ resp'.status # 401
        /\ resp'.req.body.ok /\ ~IsBatch(resp'.req.body)
        /\ resp'.req.body.name.t # "num") =>
          LET body == resp'.req.body
          IN IF \/ body.name.t \in {"absent", "null"} \/ body.name = Str(<<>>)
                \/ body.price.t # "num" \/ body.quantity.t # "num"
             THEN resp'.status = 400 /\ stocksData' = stocksData
             ELSE /\ resp'.status = 201
                  /\ \E f \in stocksData' :
                        /\ f.id = ReplaceWs(toLowerCase(body.name.s)) \o <<"-">>
                                     \o NumToString(now)
                        /\ f.name = body.name /\ f.price = body.price
                        /\ f.quantity = body.quantity
                        /\ f.lastUpdated = now /\ f.createdAt = now
                        /\ resp'.data = {f}
                        /\ Cardinality({g \in stocksData' : g.id = f.id}) = 1
                        /\ \A g \in stocksData' : g = f \/ g \in stocksData
                        /\ \A e \in stocksData : e.id # f.id => e \in stocksData']_vars

\* a generic POST with the price 0 has stored the entry "b-c-1" beside an entry
\* that was in the store
GenericPostWitness ==
    /\ resp.op = "POST" /\ resp.status = 201 /\ ~IsBatch(resp.req.body)
    /\ Cardinality(stocksData) = 2
    /\ \E f \in stocksData :
          /\ f.id = <<"b", "-", "c", "-", "1">>
          /\ f.name = Str(NameBC) /\ f.price = Num(0) /\ f.quantity = Num(3)
          /\ resp.data = {f}


\* C17: DELETE with an id query parameter removes the entry under that id, and no
\* other, and answers it, whatever sessionId its body carries; for an id that is
\* not in the store it answers 404 and changes nothing; DELETE with neither an id
\* nor a sessionId in its body answers 400 and changes nothing.
DeleteByIdRemovesOne ==
    [][(resp'.op = "DELETE" /\ resp'.status # 401) =>
          LET req == resp'.req
          IN IF req.id.t = "str" /\ req.id.s # <<>>
             THEN IF \E e \in stocksData : e.id = req.id.s
                  THEN /\ resp'.status = 200
                       /\ \E e \in stocksData :
                             /\ e.id = req.id.s
                             /\ resp'.data = {e}
                             /\ stocksData' = stocksData \ {e}
                  ELSE resp'.status = 404 /\ stocksData' = stocksData
             ELSE (~req.body.ok \/ req.body.sessionId.t = "absent") =>
                      resp'.status = 400 /\ stocksData' = stocksData]_vars

\* a DELETE by id whose body names a session has removed the one entry, and left in
\* the store an entry that a clean-up of that session would have removed
DeleteByIdWitness ==
    /\ resp.op = "DELETE" /\ resp.status = 200
    /\ resp.req.id.t = "str" /\ resp.req.body.sessionId.t = "str"
    /\ Cardinality(resp.replaced) = 1 /\ resp.data = resp.replaced
    /\ \E e \in stocksData : Includes(e.id, SliceLast(resp.req.body.sessionId.s))


\* s begins with p
HasPrefix(s, p) == Len(s) >= Len(p) /\ SubSeq(s, 1, Len(p)) = p

\* C18: a POST body is taken as a session batch exactly when it has a sessionId (an
\* empty one counts as none) and normalStock or mirageStock, whatever name, price
\* and quantity it has or lacks: it is then never answered 400, the answer carries
\* no entry, and every entry it writes has a batch id; any other body goes through
\* the generic-record test: it is answered 400, or 201 with the entry it created.
BatchDecidedFirst ==
    [][(resp'.op = "POST" /\ resp'.status # 401 /\ resp'.req.body.ok) =>
          LET body == resp'.req.body
              written == stocksData' \ stocksData
          IN IF /\ body.sessionId.t \notin {"absent", "null"} /\ body.sessionId # Str(<<>>)
                /\ (body.normalStock.t # "absent" \/ body.mirageStock.t # "absent")
             THEN /\ resp'.status \in {201, 500}
                  /\ resp'.data = {}
                  /\ \A f \in written :
                        HasPrefix(f.id, NormalPrefix) \/ HasPrefix(f.id, MiragePrefix)
             ELSE IF \/ body.name.t \in {"absent", "null"}
                     \/ body.price.t # "num" \/ body.quantity.t # "num"
                  THEN resp'.status = 400 /\ written = {}
                  ELSE /\ resp'.status = 201
                       /\ resp'.data # {} /\ written \subseteq resp'.data
                       /\ \A f \in resp'.data :
                             ~HasPrefix(f.id, NormalPrefix) /\ ~HasPrefix(f.id, MiragePrefix)]_vars

\* a body with a sessionId, a normalStock and a valid name, price and quantity was
\* answered 201 without an entry, and the store holds the batch entry and no
\* generic one
BatchFirstWitness ==
    /\ resp.op = "POST" /\ resp.status = 201
    /\ resp.req.body.sessionId = Str(SidA) /\ resp.req.body.normalStock.t = "arr"
    /\ resp.req.body.name = Str(NameA) /\ resp.req.body.price = Num(1)
    /\ resp.req.body.quantity = Num(1)
    /\ resp.data = {}
    /\ \E f \in stocksData : HasPrefix(f.id, NormalPrefix) /\ f.createdAt = now
    /\ \A f \in stocksData : HasPrefix(f.id, NormalPrefix) \/ HasPrefix(f.id, MiragePrefix)


\* C19: an entry that is dead (now - lastUpdated > DATA_EXPIRY) stays dead: a PATCH
\* or a PUT addressed to its id answers 404, as for an id the store does not hold,
\* and leaves no live entry under that id.
DeadStaysDead ==
    [][(/\ resp'.op \in {"PATCH", "PUT"} /\ resp'.status # 401
        /\ resp'.req.body.ok
        /\ \E e \in stocksData :
              Str(e.id) = resp'.req.body.id /\ now - e.lastUpdated > DATA_EXPIRY) =>
          /\ resp'.status = 404
          /\ \A f \in stocksData' :
                Str(f.id) = resp'.req.body.id => now - f.lastUpdated > DATA_EXPIRY]_vars

\* C20: in the 201 summary of a session batch POST, normalCount and mirageCount
\* are the numbers of entries the request wrote to the store under the normal and
\* the mirage category.
BatchCountsAreWrites ==
    [][BatchStored =>
          LET body == resp'.req.body
              Written(prefix) ==
                  {f \in stocksData' :
                      /\ HasPrefix(f.id, prefix)
                      /\ \E w \in StoredBy(body) : w[1] = f.id}
          IN /\ resp'.normalCount = Cardinality(Written(NormalPrefix))
             /\ resp'.mirageCount = Cardinality(Written(MiragePrefix))]_vars

====
